---- MODULE Spec2Model ----
(***************************************************************************)
(* Signaling server of quic-nodejs-rtc (src/server.js): the room registry, *)
(* the session table, the Socket.IO room membership the handlers rely on,  *)
(* and the messages each handler emits.                                    *)
(*                                                                         *)
(* Random material (crypto.randomBytes, generateKeyPairSync) is modelled   *)
(* as a serial number drawn from one counter: two draws never collide.     *)
(* Timestamps (createdAt, joinedAt) are not part of the state.             *)
(***************************************************************************)
EXTENDS Integers, Sequences, FiniteSets, TLC

VARIABLES
    rooms,      \* const rooms = new Map(): roomId -> Room
    users,      \* const users = new Map(): socket.id -> {roomId, userData}
    status,     \* per socket: "new" (not yet connected), "connected", "closed"
    joined,     \* Socket.IO adapter: the room names each socket is in
    entropy,    \* number of random values drawn so far
    minted,     \* number of uuidv4() room identifiers generated so far
    joins,      \* number of participant records added so far
    emitted,    \* messages emitted by the handler that ran last, in order
    last,       \* the event handled last: [event, sid, pre, arg, payload]
    keysSent,   \* history: per tracked room, the room-keys payloads delivered
    retired,    \* history: room keys of rooms whose last live participant left
    running,    \* the Node process is alive (no handler has thrown)
    wire,       \* whether the deliveries to the clients are followed
    clock,      \* events the server has handled while the wire is followed
    outbox,     \* per socket: the messages written to it and not yet received
    clients,    \* per client: its peers map (keys, roles), its offers, the last stamp it saw
    received,   \* the message a client handled last
    connections, \* WebTransportServer.connections: connectionId -> ws
    sockets,    \* per WebSocket: its state and the connectionId of its handlers
    wss,        \* the WebSocket server: "listening" or "stopped"
    wtLast,     \* the last operation of the WebTransportServer and its events
    gone,       \* history: ids with a 'disconnection' since their last 'connection'
    closedIds,  \* history: ids of the connections that have closed
    wtClient,   \* the WebTransportClient object and its last connect() call
    eventListeners, \* this.eventListeners: event -> callbacks in registration order
    emitLast    \* the last on() or emit() call and what it did

ioVars == <<rooms, users, status, joined, entropy, minted, joins, emitted, last, keysSent, retired>>

wireVars == <<wire, clock, outbox, clients, received>>

transportVars == <<connections, sockets, wss, wtLast, gone, closedIds, wtClient, eventListeners, emitLast>>

vars == <<rooms, users, status, joined, entropy, minted, joins, emitted, last, keysSent, retired,
          running, wire, clock, outbox, clients, received,
          connections, sockets, wss, wtLast, gone, closedIds, wtClient, eventListeners, emitLast>>

-----------------------------------------------------------------------------
(* Bounds *)

MaxSessions == 3
MaxMembers == 2
MaxJoins == 3
MaxUuids == 1
MaxClock == 5
MaxSockets == 3
MaxConnIds == 2
MaxListeners == 2

SessionIdOf(i) == "s" \o ToString(i)
SessionSeq == [i \in 1..MaxSessions |-> SessionIdOf(i)]
Sessions == {SessionSeq[i] : i \in 1..MaxSessions}

\* the sessions that take part in the room scenarios
Members == {SessionIdOf(i) : i \in 1..MaxMembers}

UuidOf(i) == "u" \o ToString(i)
Uuids == {UuidOf(i) : i \in 1..MaxUuids}

\* Room identifiers a client puts in join-room: the empty string stands for
\* a missing roomId, "s2" is the socket id of another session.
ClientRoomIds == {"", "r1", SessionIdOf(2)}

\* userData payloads of join-room; a client may add any field, here "id".
\* Room identifiers of both kinds: too short for the client's pattern, and
\* matching it.
MalformedRoomIds == {"a"}
WellFormedRoomIds == {"room-1"}

PlainUserData == [username |-> "u"]

\* a field or a payload the client left out
Undefined == [undefined |-> TRUE]
IsUndefined(v) == "undefined" \in DOMAIN v
UserDatas == {PlainUserData, [username |-> "u", id |-> "x"]}

\* userData as the clients' joinRoom callers build it: { name: username }
DisplayNames == {"alice", "bob"}
NamedUserDatas == {[name |-> n] : n \in DisplayNames}

\* userData as the room page sends it: the creator flag is the client's.
CreatorUserDatas == {[username |-> "u", isCreator |-> c] : c \in BOOLEAN}

\* Targets a client names in a signaling message.
TargetIds == {SessionIdOf(1), SessionIdOf(2)}

Payloads == {"p1"}

\* media-state-change payloads: the flags of the client, and the same with a
\* field named userId added.
MediaDatas == {[video |-> FALSE], [video |-> FALSE, userId |-> SessionIdOf(2)]}

\* encrypted-chat-message payloads: with a timestamp, with an empty one and
\* without.
ChatFields == [encryptedMessage |-> "p1", iv |-> "iv", tag |-> "tag"]
ChatDatas ==
    {ChatFields}
    \cup {[encryptedMessage |-> "p1", iv |-> "iv", tag |-> "tag", timestamp |-> t] :
              t \in {"t1", ""}}

RemoteControlEvents == {"remote-control-video", "remote-control-audio"}

SignalEvents == {"offer", "answer", "ice-candidate"}
SecureEvents == {"secure-offer", "secure-answer", "secure-ice-candidate"}

-----------------------------------------------------------------------------
(* crypto-utils.js *)

Hex(n) == <<"hex", n>>

\* generateKey(): crypto.randomBytes(32), the n-th random draw
generateKey(n) == n

\* generateSalt(): crypto.randomBytes(16).toString('hex')
generateSalt(n) == Hex(n)

\* generateKeyPair(): a fresh EC key pair, PEM encoded
generateKeyPair(n) == [publicKey |-> <<"pub", n>>, privateKey |-> <<"priv", n>>]

-----------------------------------------------------------------------------
(* class Room; participants is a Map, kept as a sequence of entries in      *)
(* insertion order, each entry carrying its Map key.                        *)

MapKeys(m) == {m[i].key : i \in 1..Len(m)}

MapHas(m, k) == k \in MapKeys(m)

MapGet(m, k) == m[CHOOSE i \in 1..Len(m) : m[i].key = k]

\* a slip: a list that is appended to, the key not looked up
MapSetAppend(m, k, v) == Append(m, v)

\* Map.prototype.set: an existing key keeps its position
MapSet(m, k, v) ==
    IF MapHas(m, k)
    THEN [i \in 1..Len(m) |-> IF m[i].key = k THEN v ELSE m[i]]
    ELSE Append(m, v)

MapDelete(m, k) == SelectSeq(m, LAMBDA e : e.key # k)

\* new Room(id): draws the encryption key and the salt
NewRoom(id, n) ==
    [id |-> id,
     participants |-> <<>>,
     encryptionKey |-> generateKey(n + 1),
     salt |-> generateSalt(n + 2)]

\* { id: socketId, ...userData, joinedAt, keyPair }: a field of userData
\* named id replaces the socket id
ParticipantRecord(socketId, userData, n) ==
    [key |-> socketId,
     id |-> IF "id" \in DOMAIN userData THEN userData.id ELSE socketId,
     username |-> IF "username" \in DOMAIN userData THEN userData.username ELSE "undefined",
     isCreator |-> IF "isCreator" \in DOMAIN userData THEN userData.isCreator ELSE FALSE,
     keyPair |-> generateKeyPair(n + 1)]

addParticipant(room, socketId, userData, n) ==
    [room EXCEPT !.participants = MapSet(@, socketId, ParticipantRecord(socketId, userData, n))]

removeParticipant(room, socketId) ==
    [room EXCEPT !.participants = MapDelete(@, socketId)]

getParticipants(room) ==
    [i \in 1..Len(room.participants) |->
        [id |-> room.participants[i].id,
         username |-> room.participants[i].username,
         publicKey |-> room.participants[i].keyPair.publicKey]]

\* a slip: the key pair of the first participant instead of the caller's
getParticipantKeyPairFirst(room, socketId) ==
    room.participants[1].keyPair

getParticipantKeyPair(room, socketId) ==
    IF MapHas(room.participants, socketId)
    THEN MapGet(room.participants, socketId).keyPair
    ELSE [publicKey |-> <<"null", 0>>, privateKey |-> <<"null", 0>>]

isEmpty(room) == Len(room.participants) = 0

getRoomKeys(room) ==
    [encryptionKey |-> Hex(room.encryptionKey), salt |-> room.salt]

-----------------------------------------------------------------------------
(* Socket.IO: socket.emit, socket.to(room).emit, socket.join *)

Msg(to, event, data) == [to |-> to, event |-> event, data |-> data]

\* socket.emit(event, data): to this socket only
Emit(s, event, data) == <<Msg(s, event, data)>>

\* sockets in the adapter room `name`, the sender excluded
Recipients(sender, name) ==
    {t \in Sessions : status[t] = "connected" /\ name \in joined[t] /\ t # sender}

\* socket.to(name).emit(event, data): one copy for each recipient
Broadcast(sender, name, event, data) ==
    LET hit == SelectSeq(SessionSeq, LAMBDA t : t \in Recipients(sender, name))
    IN [i \in 1..Len(hit) |-> Msg(hit[i], event, data)]

-----------------------------------------------------------------------------
(* State after the module is loaded: empty maps, no connection *)

\* a message on the way to a client, stamped with the event that caused it
Stamped(m, n) == [stamp |-> n, event |-> m.event, data |-> m.data]

\* a slip: the newer messages written ahead of the older ones
EnqueueFront(queue, msgs) == msgs \o queue

\* socket.emit writes to the connection of the socket: Socket.IO keeps the
\* order of the messages of one connection
Enqueue(queue, msgs) == queue \o msgs

\* the messages of the handler that has just run, for socket t
EmittedFor(t) ==
    LET mine == SelectSeq(emitted', LAMBDA m : m.to = t)
    IN [i \in 1..Len(mine) |-> Stamped(mine[i], clock + 1)]

\* the handler's messages go out before the next event is handled; what was
\* on the way to a socket that is no longer connected is dropped
Transmit ==
    IF wire
    THEN /\ clock < MaxClock
         /\ clock' = clock + 1
         /\ outbox' = [t \in Sessions |->
                          IF status'[t] = "connected"
                          THEN Enqueue(outbox[t], EmittedFor(t))
                          ELSE <<>>]
    ELSE UNCHANGED <<clock, outbox>>

\* a handler that returns: the process keeps running, its messages go out
ServedBut ==
    /\ running
    /\ Transmit
    /\ UNCHANGED <<running, wire, received>>
    /\ UNCHANGED transportVars

\* the same for an event that no step of a client's own code sent
Served ==
    /\ ServedBut
    /\ UNCHANGED clients

\* an exception leaves a handler: nothing catches it (no try/catch in the
\* handlers, no uncaughtException listener) and the process exits
Thrown ==
    /\ running
    /\ running' = FALSE
    /\ emitted' = <<>>
    /\ UNCHANGED <<wire, clock, outbox, clients, received>>
    /\ UNCHANGED transportVars

NoRooms == [r \in {} |-> 0]

NoMessage == [to |-> "", event |-> "", from |-> "", known |-> TRUE]

\* the process has started, nothing is on the wire
InitIo ==
    /\ running = TRUE
    /\ clock = 0
    /\ outbox = [s \in Sessions |-> <<>>]
    /\ clients = [s \in Sessions |->
                     [peers |-> {}, stamp |-> 0, roles |-> [p \in {} |-> 0],
                      offers |-> {}, offered |-> {}]]
    /\ received = NoMessage

\* the WebSocket names and the connection ids Math.random can produce
WsNames == {"w" \o ToString(i) : i \in 1..MaxSockets}
ConnIds == {"c" \o ToString(i) : i \in 1..MaxConnIds}

NoCall == [op |-> "", wt |-> FALSE, ws |-> FALSE, wtOutcome |-> "", wsOutcome |-> "", result |-> ""]

\* new WebTransportServer() started, new WebTransportClient()
InitTransport ==
    /\ connections = [c \in {} |-> ""]
    /\ sockets = [w \in WsNames |-> [state |-> "none", id |-> ""]]
    /\ wss = "listening"
    /\ wtLast = [op |-> "start", id |-> "", ws |-> "", threw |-> FALSE, events |-> <<>>]
    /\ gone = {}
    /\ closedIds = {}
    /\ wtClient = [transport |-> "null", ws |-> "null", isConnected |-> FALSE,
                   useWebTransport |-> FALSE, disconnected |-> 0,
                   call |-> NoCall]
    /\ eventListeners = [e \in {} |-> <<>>]
    /\ emitLast = [op |-> "", event |-> "", invoked |-> <<>>, logged |-> 0, propagated |-> FALSE]

InitServer ==
    /\ InitTransport
    /\ rooms = NoRooms
    /\ users = [s \in {} |-> 0]
    /\ status = [s \in Sessions |-> "new"]
    /\ joined = [s \in Sessions |-> {}]
    /\ entropy = 0
    /\ minted = 0
    /\ joins = 0
    /\ emitted = <<>>
    /\ last = [event |-> "start", sid |-> "", pre |-> "", arg |-> "", payload |-> ""]
    /\ keysSent = NoRooms
    /\ retired = {}
    /\ InitIo

Init == InitServer /\ wire = FALSE

\* the same, with the deliveries to the clients followed
InitWire == InitServer /\ wire = TRUE

\* the event being handled: its name, the socket it came from and the state
\* of that socket, the room or target it names, the payload it carries
Handled(event, s, arg, payload) ==
    [event |-> event, sid |-> s, pre |-> status[s], arg |-> arg, payload |-> payload]

HandledHttp(event, roomId) ==
    [event |-> event, sid |-> "", pre |-> "", arg |-> roomId, payload |-> ""]

MapPut(f, k, v) == [x \in DOMAIN f \cup {k} |-> IF x = k THEN v ELSE f[x]]

MapRemove(f, k) == [x \in DOMAIN f \ {k} |-> f[x]]

\* room identifiers a client can name: its own choices and generated ones
JoinableIds == {"r1"} \cup {UuidOf(i) : i \in 1..minted}

-----------------------------------------------------------------------------
(* io.on('connection'): Socket.IO puts the socket in the room of its own id *)

Connect(s) ==
    /\ status[s] = "new"
    /\ status' = [status EXCEPT ![s] = "connected"]
    /\ joined' = [joined EXCEPT ![s] = {s}]
    /\ emitted' = <<>>
    /\ last' = Handled("connection", s, "", "")
    /\ UNCHANGED <<rooms, users, entropy, minted, joins, keysSent, retired>>
    /\ Served

-----------------------------------------------------------------------------
(* socket.on('join-room') *)

\* a slip: the rooms.has(roomId) test left out, a Room built on every join
JoinRoomBeforeAlwaysNew(roomId) ==
    [room |-> NewRoom(roomId, entropy), n |-> entropy + 2]

\* the Room the handler works on, and the random draws used so far
JoinRoomBefore(roomId) ==
    IF roomId \in DOMAIN rooms
    THEN [room |-> rooms[roomId], n |-> entropy]
    ELSE [room |-> NewRoom(roomId, entropy), n |-> entropy + 2]

JoinRoomAfter(s, roomId, userData) ==
    addParticipant(JoinRoomBefore(roomId).room, s, userData, JoinRoomBefore(roomId).n)

RoomKeysMessage(room, s) ==
    [roomKeys |-> getRoomKeys(room),
     yourKeyPair |-> [publicKey |-> getParticipantKeyPair(room, s).publicKey,
                      privateKey |-> getParticipantKeyPair(room, s).privateKey]]

ExistingParticipants(room, s) ==
    SelectSeq(getParticipants(room), LAMBDA p : p.id # s)

JoinRoomEmits(s, roomId, userData, room) ==
    Emit(s, "room-keys", RoomKeysMessage(room, s))
    \o Broadcast(s, roomId, "user-joined", [userId |-> s, userData |-> userData])
    \o Emit(s, "existing-participants", [list |-> ExistingParticipants(room, s)])

\* a slip: the test of roomId left out
JoinRoomMissingNever(roomId) == FALSE

\* !roomId: the request carries no roomId, or an empty one
JoinRoomMissing(roomId) == roomId = ""

JoinRoom(s, roomId, userData) ==
    /\ status[s] = "connected"
    /\ last' = Handled("join-room", s, roomId, "")
    /\ IF JoinRoomMissing(roomId)
       THEN /\ emitted' = Emit(s, "error", [message |-> "Room ID is required"])
            /\ UNCHANGED <<rooms, users, status, joined, entropy, minted, joins, keysSent, retired>>
       ELSE LET room == JoinRoomAfter(s, roomId, userData)
                n == JoinRoomBefore(roomId).n + 1
            IN /\ joins < MaxJoins
               /\ joins' = joins + 1
               /\ rooms' = MapPut(rooms, roomId, room)
               /\ users' = MapPut(users, s, [roomId |-> roomId, userData |-> userData])
               /\ joined' = [joined EXCEPT ![s] = @ \cup {roomId}]
               /\ entropy' = n
               /\ emitted' = JoinRoomEmits(s, roomId, userData, room)
               /\ keysSent' = MapPut(keysSent, roomId,
                      (IF roomId \in DOMAIN rooms THEN keysSent[roomId] ELSE {})
                      \cup {[to |-> s, roomKeys |-> getRoomKeys(room)]})
               /\ UNCHANGED <<status, minted, retired>>
    /\ Served

-----------------------------------------------------------------------------
(* socket.on('offer' | 'answer' | 'ice-candidate') *)

SignalData(event, s, payload) ==
    CASE event = "offer" -> [fromUserId |-> s, offer |-> payload]
      [] event = "answer" -> [fromUserId |-> s, answer |-> payload]
      [] event = "ice-candidate" -> [fromUserId |-> s, candidate |-> payload]

SignalRelay(s, event, target, payload) ==
    /\ status[s] = "connected"
    /\ emitted' = Broadcast(s, target, event, SignalData(event, s, payload))
    /\ last' = Handled(event, s, target, payload)
    /\ UNCHANGED <<rooms, users, status, joined, entropy, minted, joins, keysSent, retired>>

Signal(s, event, target, payload) ==
    /\ SignalRelay(s, event, target, payload)
    /\ Served

(* socket.on('secure-offer' | 'secure-answer' | 'secure-ice-candidate') *)

SecureData(event, s, payload) ==
    CASE event = "secure-offer" ->
            [senderId |-> s, encryptedOffer |-> payload, iv |-> "iv", tag |-> "tag"]
      [] event = "secure-answer" ->
            [senderId |-> s, encryptedAnswer |-> payload, iv |-> "iv", tag |-> "tag"]
      [] event = "secure-ice-candidate" ->
            [senderId |-> s, encryptedCandidate |-> payload, iv |-> "iv", tag |-> "tag"]

SecureSignal(s, event, target, payload) ==
    /\ status[s] = "connected"
    /\ emitted' = Broadcast(s, target, event, SecureData(event, s, payload))
    /\ last' = Handled(event, s, target, payload)
    /\ UNCHANGED <<rooms, users, status, joined, entropy, minted, joins, keysSent, retired>>
    /\ Served

-----------------------------------------------------------------------------
(* socket.on('disconnect') *)

\* the registry after the handler
DisconnectRooms(s) ==
    IF s \in DOMAIN users /\ users[s].roomId \in DOMAIN rooms
    THEN LET roomId == users[s].roomId
             room == removeParticipant(rooms[roomId], s)
         IN IF isEmpty(room) THEN MapRemove(rooms, roomId) ELSE MapPut(rooms, roomId, room)
    ELSE rooms

\* a slip: users.delete(socket.id) left out
DisconnectUsersKept(s) == users

DisconnectUsers(s) == MapRemove(users, s)

DisconnectEmits(s) ==
    IF s \in DOMAIN users /\ users[s].roomId \in DOMAIN rooms
    THEN Broadcast(s, users[s].roomId, "user-left", [userId |-> s])
    ELSE <<>>

\* rooms in which s is the only participant that is still connected
LastLiveIn(s) ==
    {r \in DOMAIN rooms :
        /\ MapHas(rooms[r].participants, s)
        /\ \A t \in MapKeys(rooms[r].participants) : t # s => status[t] # "connected"}

DisconnectHandler(s) ==
    /\ rooms' = DisconnectRooms(s)
    /\ users' = DisconnectUsers(s)
    /\ emitted' = DisconnectEmits(s)
    /\ keysSent' = [r \in DOMAIN DisconnectRooms(s) |-> keysSent[r]]
    /\ last' = Handled("disconnect", s, "", "")
    /\ UNCHANGED <<entropy, minted, joins>>
    /\ Served

\* the socket closes: it has left its rooms when the handler runs
Disconnect(s) ==
    /\ status[s] = "connected"
    /\ status' = [status EXCEPT ![s] = "closed"]
    /\ joined' = [joined EXCEPT ![s] = {}]
    /\ retired' = retired \cup {Hex(rooms[r].encryptionKey) : r \in LastLiveIn(s)}
    /\ DisconnectHandler(s)

\* the handler run once more for a socket that is already closed
DisconnectAgain(s) ==
    /\ status[s] = "closed"
    /\ UNCHANGED <<status, joined, retired>>
    /\ DisconnectHandler(s)

-----------------------------------------------------------------------------
(* REST endpoints *)

HttpClient == "http"

CreateRoomApi(event) ==
    /\ minted < MaxUuids
    /\ LET roomId == UuidOf(minted + 1)
       IN /\ rooms' = MapPut(rooms, roomId, NewRoom(roomId, entropy))
          /\ keysSent' = MapPut(keysSent, roomId, {})
          /\ emitted' = <<Msg(HttpClient, "200", [roomId |-> roomId])>>
          /\ last' = HandledHttp(event, roomId)
    /\ minted' = minted + 1
    /\ entropy' = entropy + 2
    /\ UNCHANGED <<users, status, joined, joins, retired>>
    /\ Served

\* app.post('/api/rooms')
PostRooms == CreateRoomApi("POST /api/rooms")

\* app.post('/api/create-room')
PostCreateRoom == CreateRoomApi("POST /api/create-room")

\* app.get('/api/rooms/:roomId')
GetRoom(roomId) ==
    /\ emitted' =
          IF roomId \in DOMAIN rooms
          THEN <<Msg(HttpClient, "200",
                     [id |-> rooms[roomId].id,
                      participantCount |-> Len(rooms[roomId].participants)])>>
          ELSE <<Msg(HttpClient, "404", [error |-> "Room not found"])>>
    /\ last' = HandledHttp("GET /api/rooms/:roomId", roomId)
    /\ UNCHANGED <<rooms, users, status, joined, entropy, minted, joins, keysSent, retired>>
    /\ Served

-----------------------------------------------------------------------------
(* validateRoomId of the landing page: /^[A-Za-z0-9_-]{3,32}$/.  The room   *)
(* identifiers of the model are written in that alphabet, so the length     *)
(* decides.  The server never calls it.                                      *)

validateRoomId(id) == Len(id) >= 3 /\ Len(id) <= 32

-----------------------------------------------------------------------------
(* socket.on('encrypted-chat-message') *)

\* new Date().toISOString()
ServerTime == "now"

\* timestamp || new Date().toISOString(): the right side when the field is
\* absent or falsy
ChatTimestamp(data) ==
    IF "timestamp" \in DOMAIN data /\ data.timestamp # ""
    THEN data.timestamp
    ELSE ServerTime

ChatMessageData(s, data) ==
    [senderId |-> s,
     senderName |-> IF "username" \in DOMAIN users[s].userData
                    THEN users[s].userData.username ELSE "undefined",
     encryptedMessage |-> data.encryptedMessage,
     iv |-> data.iv,
     tag |-> data.tag,
     timestamp |-> ChatTimestamp(data)]

\* inside the if: destructuring a payload that is not there, and
\* user.userData.username of a session that joined without userData, throw
ChatThrows(s, data) ==
    /\ s \in DOMAIN users
    /\ users[s].roomId \in DOMAIN rooms
    /\ IsUndefined(data) \/ IsUndefined(users[s].userData)

ChatMessage(s, data) ==
    /\ status[s] = "connected"
    /\ last' = Handled("encrypted-chat-message", s, "", data)
    /\ UNCHANGED <<rooms, users, status, joined, entropy, minted, joins, keysSent, retired>>
    /\ IF ChatThrows(s, data)
       THEN Thrown
       ELSE /\ emitted' =
                  IF s \in DOMAIN users /\ users[s].roomId \in DOMAIN rooms
                  THEN Broadcast(s, users[s].roomId, "encrypted-chat-message",
                                 ChatMessageData(s, data))
                  ELSE <<>>
            /\ Served

(* socket.on('media-state-change') *)

\* { ...base, ...over }: a field of over replaces the field of base;
\* spreading undefined adds nothing
Spread(base, over) ==
    IF IsUndefined(over)
    THEN base
    ELSE [k \in DOMAIN base \cup DOMAIN over |->
             IF k \in DOMAIN over THEN over[k] ELSE base[k]]

MediaStateChange(s, data) ==
    /\ status[s] = "connected"
    /\ emitted' =
          IF s \in DOMAIN users
          THEN Broadcast(s, users[s].roomId, "media-state-change", Spread([userId |-> s], data))
          ELSE <<>>
    /\ last' = Handled("media-state-change", s, "", data)
    /\ UNCHANGED <<rooms, users, status, joined, entropy, minted, joins, keysSent, retired>>
    /\ Served

(* remote-control-video, remote-control-audio: the client emits them, the  *)
(* connection handler registers no listener for them                        *)

RemoteControl(s, event, target, enable) ==
    /\ status[s] = "connected"
    /\ emitted' = <<>>
    /\ last' = Handled(event, s, target, enable)
    /\ UNCHANGED <<rooms, users, status, joined, entropy, minted, joins, keysSent, retired>>
    /\ Served

-----------------------------------------------------------------------------
(* WebRTCClient.setupSocketHandlers: a client takes the next message of its *)
(* connection                                                                *)

\* the keys of this.peers after the handler of message m: user-joined and
\* existing-participants call createPeerConnection, user-left removePeer
PeersAfter(peers, m) ==
    CASE m.event = "user-joined" -> peers \cup {m.data.userId}
      [] m.event = "existing-participants" ->
            peers \cup {m.data.list[i].id : i \in 1..Len(m.data.list)}
      [] m.event = "user-left" -> peers \ {m.data.userId}
      [] OTHER -> peers

\* the ids listed by an existing-participants message
Listed(m) == {m.data.list[i].id : i \in 1..Len(m.data.list)}

\* a slip: every peer connection is created as initiator
IsInitiatorAlways(event) == TRUE

\* the isInitiator argument of createPeerConnection: true in the user-joined
\* handler, false in the existing-participants handler
IsInitiator(event) == event = "user-joined"

\* createPeerConnection(userId, isInitiator) for the message with stamp n
PeerRole(event, n) == [initiator |-> IsInitiator(event), join |-> n]

\* this.peers after the handler of message m, each entry with the role it was
\* created in and the join that created it
RolesAfter(roles, m) ==
    CASE m.event = "user-joined" ->
            [p \in DOMAIN roles \cup {m.data.userId} |->
                IF p = m.data.userId THEN PeerRole(m.event, m.stamp) ELSE roles[p]]
      [] m.event = "existing-participants" ->
            [p \in DOMAIN roles \cup Listed(m) |->
                IF p \in Listed(m) THEN PeerRole(m.event, m.stamp) ELSE roles[p]]
      [] m.event = "user-left" ->
            [p \in DOMAIN roles \ {m.data.userId} |-> roles[p]]
      [] OTHER -> roles

\* the createOffer calls started by the handler of message m
OffersOf(m) ==
    CASE m.event = "user-joined" ->
            IF IsInitiator(m.event) THEN {[to |-> m.data.userId, join |-> m.stamp]} ELSE {}
      [] m.event = "existing-participants" ->
            IF IsInitiator(m.event) THEN {[to |-> p, join |-> m.stamp] : p \in Listed(m)} ELSE {}
      [] OTHER -> {}

\* the createOffer calls that have not emitted yet: removePeer closes the
\* peer connection, and createOffer on a closed connection is rejected
OffersAfter(offers, m) ==
    IF m.event = "user-left"
    THEN {o \in offers : o.to # m.data.userId}
    ELSE offers \cup OffersOf(m)

\* handleOffer, handleAnswer, handleIceCandidate: this.peers.get(fromUserId)
PeerFound(peers, m) ==
    m.event \in SignalEvents => m.data.fromUserId \in peers

Receive(t) ==
    /\ wire
    /\ status[t] = "connected"
    /\ outbox[t] # <<>>
    /\ LET m == Head(outbox[t])
       IN /\ received' = [to |-> t,
                          event |-> m.event,
                          from |-> IF m.event \in SignalEvents THEN m.data.fromUserId ELSE "",
                          known |-> PeerFound(clients[t].peers, m)]
          /\ clients' = [clients EXCEPT ![t] =
                            [peers |-> PeersAfter(@.peers, m),
                             stamp |-> m.stamp,
                             roles |-> RolesAfter(@.roles, m),
                             offers |-> OffersAfter(@.offers, m),
                             offered |-> @.offered \cup OffersOf(m)]]
    /\ outbox' = [outbox EXCEPT ![t] = Tail(@)]
    /\ UNCHANGED <<ioVars, running, wire, clock>>
    /\ UNCHANGED transportVars

\* createOffer(userId) comes back from its awaits and emits the offer, which
\* the server relays
ClientSendOffer(s) ==
    /\ wire
    /\ \E o \in clients[s].offers :
          /\ SignalRelay(s, "offer", o.to, "p1")
          /\ clients' = [clients EXCEPT ![s].offers = @ \ {o}]
    /\ ServedBut

-----------------------------------------------------------------------------
(* handlers called with no payload, and key generation that fails *)

\* the events whose handler starts by destructuring its payload
DestructuringEvents == {"join-room"} \cup SignalEvents \cup SecureEvents

\* const { ... } = data with data undefined: a TypeError
NoPayload(s, event) ==
    /\ status[s] = "connected"
    /\ last' = Handled(event, s, "", Undefined)
    /\ UNCHANGED <<rooms, users, status, joined, entropy, minted, joins, keysSent, retired>>
    /\ Thrown

\* where the random source can fail during a join: in new Room(roomId), or
\* in addParticipant's generateKeyPair()
FailurePoints == {"room", "keyPair"}

\* the registry when generateKeyPair() throws: a Room constructed for this
\* join has been registered already
JoinRoomFailureRooms(roomId, at) ==
    IF at = "keyPair" /\ roomId \notin DOMAIN rooms
    THEN MapPut(rooms, roomId, NewRoom(roomId, entropy))
    ELSE rooms

JoinRoomKeyFailure(s, roomId, userData, at) ==
    /\ status[s] = "connected"
    /\ at = "room" => roomId \notin DOMAIN rooms
    /\ last' = Handled("join-room", s, roomId, at)
    /\ rooms' = JoinRoomFailureRooms(roomId, at)
    /\ keysSent' = [r \in DOMAIN rooms' |-> IF r \in DOMAIN rooms THEN keysSent[r] ELSE {}]
    /\ entropy' = IF rooms' = rooms THEN entropy ELSE entropy + 2
    /\ UNCHANGED <<users, status, joined, minted, joins, retired>>
    /\ Thrown

-----------------------------------------------------------------------------
(* class WebTransportServer (WebSocket fallback on /webtransport) *)

\* the Socket.IO server takes no step
IoIdle == UNCHANGED <<ioVars, running, wireVars>>

WtEvent(event, id) == [event |-> event, connectionId |-> id]

WtDone(op, id, w, threw, events) ==
    [op |-> op, id |-> id, ws |-> w, threw |-> threw, events |-> events]

\* generateConnectionId(): Math.random().toString(36).substr(2, 9); the draw
\* is compared with nothing, any id can come out
generateConnectionId == ConnIds

\* handleWebSocketConnection(ws, req)
WtAccept(w, id) ==
    /\ wss = "listening"
    /\ sockets[w].state = "none"
    /\ id \in generateConnectionId
    /\ connections' = MapPut(connections, id, w)
    /\ sockets' = [sockets EXCEPT ![w] = [state |-> "open", id |-> id]]
    /\ wtLast' = WtDone("connection", id, w, FALSE, <<WtEvent("connection", id)>>)
    /\ gone' = gone \ {id}
    /\ UNCHANGED <<wss, closedIds, wtClient, eventListeners, emitLast>>
    /\ IoIdle

\* ws.on('message'): the parsed message is tagged with the connection id
WsMessage(w) ==
    /\ sockets[w].state = "open"
    /\ wtLast' = WtDone("message", sockets[w].id, w, FALSE, <<WtEvent("message", sockets[w].id)>>)
    /\ UNCHANGED <<connections, sockets, wss, gone, closedIds, wtClient, eventListeners, emitLast>>
    /\ IoIdle

\* ws.on('error'): reported, the table is not touched
WsError(w) ==
    /\ sockets[w].state = "open"
    /\ wtLast' = WtDone("error", sockets[w].id, w, FALSE, <<WtEvent("error", sockets[w].id)>>)
    /\ UNCHANGED <<connections, sockets, wss, gone, closedIds, wtClient, eventListeners, emitLast>>
    /\ IoIdle

\* ws.on('close'): fired once for a WebSocket, after an error too
WsClose(w) ==
    /\ sockets[w].state \in {"open", "closing"}
    /\ sockets' = [sockets EXCEPT ![w].state = "closed"]
    /\ connections' = MapRemove(connections, sockets[w].id)
    /\ wtLast' = WtDone("close", sockets[w].id, w, FALSE,
                        <<WtEvent("disconnection", sockets[w].id)>>)
    /\ gone' = gone \cup {sockets[w].id}
    /\ closedIds' = closedIds \cup {sockets[w].id}
    /\ UNCHANGED <<wss, wtClient, eventListeners, emitLast>>
    /\ IoIdle

\* sendMessage(connectionId, message): throws for an id that is not in the
\* table, else ws.send on the socket the table holds for it
WtSendMessage(id) ==
    /\ wtLast' =
          IF id \in DOMAIN connections /\ sockets[connections[id]].state = "open"
          THEN WtDone("sendMessage", id, connections[id], FALSE, <<WtEvent("send", id)>>)
          ELSE WtDone("sendMessage", id, "", TRUE, <<>>)
    /\ UNCHANGED <<connections, sockets, wss, gone, closedIds, wtClient, eventListeners, emitLast>>
    /\ IoIdle

\* stop(): every socket is told to close, the table is cleared
WtStop ==
    /\ wss = "listening"
    /\ wss' = "stopped"
    /\ sockets' = [w \in WsNames |->
                      IF sockets[w].state = "open"
                      THEN [sockets[w] EXCEPT !.state = "closing"]
                      ELSE sockets[w]]
    /\ connections' = [c \in {} |-> ""]
    /\ wtLast' = WtDone("stop", "", "", FALSE, <<>>)
    /\ UNCHANGED <<gone, closedIds, wtClient, eventListeners, emitLast>>
    /\ IoIdle

-----------------------------------------------------------------------------
(* class WebTransportClient.  transport and ws hold the state of the        *)
(* browser's WebTransport session and WebSocket; call is the last method    *)
(* call or socket event, with the environment it met.                       *)

ServerIdle == UNCHANGED <<connections, sockets, wss, wtLast, gone, closedIds, eventListeners, emitLast>>

\* what new WebTransport(url) and its ready promise can do
WtOutcomes == {"throws", "rejects", "ready"}

\* what new WebSocket(url) can do
WsOutcomes == {"throws", "created"}

\* the environments of a connect() call: 'WebTransport' in window,
\* 'WebSocket' in window, and what the constructors do where they exist
Environments ==
    {[wt |-> a, wtOutcome |-> b, ws |-> c, wsOutcome |-> d] :
        a \in BOOLEAN, b \in WtOutcomes \cup {"none"},
        c \in BOOLEAN, d \in WsOutcomes \cup {"none"}}

Environment(e) ==
    /\ e \in Environments
    /\ e.wt <=> e.wtOutcome # "none"
    /\ e.ws <=> e.wsOutcome # "none"

\* setupWebTransport(): incomingBidirectionalStreams.getReader() returns a
\* reader, which has no then(): the call throws a TypeError after the
\* datagram writer and reader were taken
setupWebTransport(c) == [client |-> c, threw |-> TRUE]

\* the try block of the WebTransport branch: the client after it, and whether
\* connect() returned true from it
TryWebTransport(c, e) ==
    CASE ~e.wt -> [client |-> c, returned |-> FALSE]
      [] e.wtOutcome = "throws" -> [client |-> c, returned |-> FALSE]
      [] e.wtOutcome = "rejects" ->
            [client |-> [c EXCEPT !.transport = "failed"], returned |-> FALSE]
      [] e.wtOutcome = "ready" ->
            LET ready == [c EXCEPT !.transport = "open",
                                   !.isConnected = TRUE,
                                   !.useWebTransport = TRUE]
            IN [client |-> setupWebTransport(ready).client,
                returned |-> ~setupWebTransport(ready).threw]

\* a slip: the flag of the channel in use is left as the first branch set it
FallbackWebSocketKeepsFlag(c) == [c EXCEPT !.ws = "connecting"]

\* this.ws = new WebSocket(wsUrl); this.useWebTransport = false
FallbackWebSocket(c) == [c EXCEPT !.ws = "connecting", !.useWebTransport = FALSE]

ClientCall(op, e, result) ==
    [op |-> op, wt |-> e.wt, ws |-> e.ws, wtOutcome |-> e.wtOutcome,
     wsOutcome |-> e.wsOutcome, result |-> result]

NoEnvironment == [wt |-> FALSE, ws |-> FALSE, wtOutcome |-> "", wsOutcome |-> ""]

\* connect(serverUrl), called while no WebSocket of an earlier call is alive
ClientConnect(e) ==
    /\ Environment(e)
    /\ wtClient.ws \in {"null", "closed"}
    /\ LET first == TryWebTransport([wtClient EXCEPT !.disconnected = 0], e)
       IN wtClient' =
            IF first.returned
            THEN [first.client EXCEPT !.call = ClientCall("connect", e, "true")]
            ELSE IF e.ws
            THEN IF e.wsOutcome = "created"
                 THEN [FallbackWebSocket(first.client) EXCEPT
                          !.call = ClientCall("connect", e, "true")]
                 ELSE [first.client EXCEPT !.call = ClientCall("connect", e, "throws")]
            ELSE [first.client EXCEPT !.call = ClientCall("connect", e, "throws")]
    /\ ServerIdle
    /\ IoIdle

\* ws.onopen
ClientWsOpen ==
    /\ wtClient.ws = "connecting"
    /\ wtClient' = [wtClient EXCEPT !.ws = "open", !.isConnected = TRUE,
                                    !.call = ClientCall("onopen", NoEnvironment, "")]
    /\ ServerIdle
    /\ IoIdle

\* ws.onclose: the connection failed, was closed by the server or by close()
ClientWsClose ==
    /\ wtClient.ws \in {"connecting", "open", "closing"}
    /\ wtClient' = [wtClient EXCEPT !.ws = "closed", !.isConnected = FALSE,
                                    !.disconnected = IF @ = 0 THEN 0 ELSE @ + 1,
                                    !.call = ClientCall("onclose", NoEnvironment, "")]
    /\ ServerIdle
    /\ IoIdle

\* sendMessage(message)
ClientSendMessage ==
    /\ wtClient' =
          [wtClient EXCEPT !.call = ClientCall("sendMessage", NoEnvironment,
              IF ~wtClient.isConnected THEN "Not connected"
              ELSE IF wtClient.useWebTransport
              THEN IF wtClient.transport = "open" THEN "datagram" ELSE "throws"
              ELSE IF wtClient.ws = "open" THEN "sent"
              ELSE IF wtClient.ws = "connecting" THEN "throws"
              ELSE "dropped")]
    /\ ServerIdle
    /\ IoIdle

\* disconnect(), called once for a connection; disconnected counts the
\* 'disconnected' events emitted from the call on
ClientDisconnect ==
    /\ wtClient.disconnected = 0
    /\ wtClient' =
          [wtClient EXCEPT
              !.isConnected = FALSE,
              !.disconnected = 1,
              !.transport = IF wtClient.useWebTransport /\ @ \in {"open", "failed"}
                            THEN "closed" ELSE @,
              !.ws = IF ~(wtClient.useWebTransport /\ wtClient.transport # "null")
                        /\ @ \in {"connecting", "open"}
                     THEN "closing" ELSE @,
              !.call = ClientCall("disconnect", NoEnvironment, "")]
    /\ ServerIdle
    /\ IoIdle

-----------------------------------------------------------------------------
(* The event system of WebTransportServer and WebTransportClient: on and    *)
(* emit are the same code in both classes.                                   *)

EventNames == {"connection", "message"}

\* callbacks a caller can register: some return, some throw
Callbacks == {[name |-> n, throws |-> b] : n \in {"f", "g"}, b \in BOOLEAN}

\* a slip: the callback called outside a try block
CallUnguarded(callback) ==
    [called |-> callback.name, logged |-> 0, propagates |-> callback.throws]

\* try { callback(data) } catch (error) { console.error(...) }
CallGuarded(callback) ==
    [called |-> callback.name,
     logged |-> IF callback.throws THEN 1 ELSE 0,
     propagates |-> FALSE]

\* forEach from index i on: an exception that leaves the function passed to
\* forEach ends the iteration and leaves emit
RECURSIVE ForEachFrom(_, _)
ForEachFrom(callbacks, i) ==
    IF i > Len(callbacks)
    THEN [invoked |-> <<>>, logged |-> 0, propagated |-> FALSE]
    ELSE LET this == CallGuarded(callbacks[i])
             rest == ForEachFrom(callbacks, i + 1)
         IN IF this.propagates
            THEN [invoked |-> <<this.called>>, logged |-> this.logged, propagated |-> TRUE]
            ELSE [invoked |-> <<this.called>> \o rest.invoked,
                  logged |-> this.logged + rest.logged,
                  propagated |-> rest.propagated]

EventIdle == UNCHANGED <<connections, sockets, wss, wtLast, gone, closedIds, wtClient>>

\* on(event, callback)
On(event, callback) ==
    /\ IF event \in DOMAIN eventListeners
       THEN Len(eventListeners[event]) < MaxListeners
       ELSE TRUE
    /\ eventListeners' =
          MapPut(eventListeners, event,
                 Append(IF event \in DOMAIN eventListeners
                        THEN eventListeners[event] ELSE <<>>, callback))
    /\ emitLast' = [op |-> "on", event |-> event, invoked |-> <<>>, logged |-> 0,
                    propagated |-> FALSE]
    /\ EventIdle
    /\ IoIdle

\* emit(event, data)
EmitEvent(event) ==
    /\ emitLast' =
          IF event \in DOMAIN eventListeners
          THEN LET run == ForEachFrom(eventListeners[event], 1)
               IN [op |-> "emit", event |-> event, invoked |-> run.invoked,
                   logged |-> run.logged, propagated |-> run.propagated]
          ELSE [op |-> "emit", event |-> event, invoked |-> <<>>, logged |-> 0,
                propagated |-> FALSE]
    /\ UNCHANGED eventListeners
    /\ EventIdle
    /\ IoIdle

-----------------------------------------------------------------------------

(* Specifications.  The handlers are the same in each; they differ in the  *)
(* requests the clients send.                                              *)

\* connections, joins and disconnections
Membership(roomIds, userDatas) ==
    \/ \E s \in Sessions : Connect(s)
    \/ \E s \in Sessions, roomId \in roomIds, userData \in userDatas :
          JoinRoom(s, roomId, userData)
    \/ \E s \in Sessions : Disconnect(s)

\* rooms and participants: joins to client-chosen and generated room ids,
\* REST room creation, repeated disconnect handling
Next ==
    \/ \E s \in Members : Connect(s)
    \/ \E s \in Members, roomId \in JoinableIds : JoinRoom(s, roomId, PlainUserData)
    \/ \E s \in Members : Disconnect(s)
    \/ \E s \in Members : DisconnectAgain(s)
    \/ PostRooms
    \/ PostCreateRoom

Spec == Init /\ [][Next]_vars

\* room lookups and join requests without a roomId
NextLookup ==
    \/ Membership(ClientRoomIds, {PlainUserData})
    \/ \E roomId \in ClientRoomIds \ {""} : GetRoom(roomId)

SpecLookup == Init /\ [][NextLookup]_vars

\* signaling relay, with joins to a room named like the socket id of a session
NextRelay ==
    \/ Membership({SessionIdOf(2)}, {PlainUserData})
    \/ \E s \in Sessions, event \in SignalEvents, target \in TargetIds, payload \in Payloads :
          Signal(s, event, target, payload)
    \/ \E s \in Sessions, event \in SecureEvents, target \in TargetIds, payload \in Payloads :
          SecureSignal(s, event, target, payload)

SpecRelay == Init /\ [][NextRelay]_vars

\* joins whose userData carries fields of the client's choosing
NextUserData == Membership({"r1"}, UserDatas)

SpecUserData == Init /\ [][NextUserData]_vars

\* joins to room identifiers that match the pattern of the landing page and
\* to identifiers that do not
NextValidate == Membership(MalformedRoomIds \cup WellFormedRoomIds, {PlainUserData})

SpecValidate == Init /\ [][NextValidate]_vars

\* joins whose userData carries the creator flag of the room page
NextCreator == Membership({"r1"}, CreatorUserDatas)

SpecCreator == Init /\ [][NextCreator]_vars

\* room broadcasts and remote control, with joins to a room named like the
\* socket id of a session
NextMedia ==
    \/ Membership({SessionIdOf(2)}, {PlainUserData})
    \/ \E s \in Sessions, data \in MediaDatas : MediaStateChange(s, data)
    \/ \E s \in Sessions, data \in ChatDatas : ChatMessage(s, data)
    \/ \E s \in Sessions, event \in RemoteControlEvents, target \in TargetIds :
          RemoteControl(s, event, target, TRUE)

SpecMedia == Init /\ [][NextMedia]_vars

\* the server and the connections to its clients: what the handlers emit is
\* written to the sockets and received by the clients later, in order; the
\* clients are the two sessions that signaling messages name
NextWire ==
    \/ \E s \in TargetIds : Connect(s)
    \/ \E s \in TargetIds : JoinRoom(s, "r1", PlainUserData)
    \/ \E s \in TargetIds : Disconnect(s)
    \/ \E s \in TargetIds, event \in SignalEvents, target \in TargetIds, payload \in Payloads :
          Signal(s, event, target, payload)
    \/ \E t \in TargetIds : Receive(t)

SpecWire == InitWire /\ [][NextWire]_vars

\* payloads with parts left out: no payload at all, no userData
NextPayload ==
    \/ Membership({"r1"}, {PlainUserData, Undefined})
    \/ \E s \in Sessions, data \in {ChatFields, Undefined} : ChatMessage(s, data)
    \/ \E s \in Sessions, data \in {[video |-> FALSE], Undefined} : MediaStateChange(s, data)
    \/ \E s \in Sessions, event \in SignalEvents, target \in {"", SessionIdOf(1)}, payload \in Payloads :
          Signal(s, event, target, payload)
    \/ \E s \in Sessions, event \in DestructuringEvents : NoPayload(s, event)

SpecPayload == Init /\ [][NextPayload]_vars

\* joins during which the random source fails
NextKeyFailure ==
    \/ Membership({"r1"}, {PlainUserData})
    \/ \E s \in Sessions, at \in FailurePoints : JoinRoomKeyFailure(s, "r1", PlainUserData, at)

SpecKeyFailure == Init /\ [][NextKeyFailure]_vars

\* the WebTransportServer alone: connections come, fail, close, are written to
NextTransport ==
    \/ \E w \in WsNames, id \in ConnIds : WtAccept(w, id)
    \/ \E w \in WsNames : WsMessage(w)
    \/ \E w \in WsNames : WsError(w)
    \/ \E w \in WsNames : WsClose(w)
    \/ \E id \in ConnIds : WtSendMessage(id)
    \/ WtStop

SpecTransport == Init /\ [][NextTransport]_vars

\* joins as the clients send them, with the display name in userData.name,
\* and chat messages
NextName ==
    \/ Membership({"r1"}, NamedUserDatas)
    \/ \E s \in Sessions : ChatMessage(s, ChatFields)

SpecName == Init /\ [][NextName]_vars

\* the WebTransportClient alone, in browsers with and without each transport
NextClient ==
    \/ \E e \in Environments : ClientConnect(e)
    \/ ClientWsOpen
    \/ ClientWsClose
    \/ ClientSendMessage
    \/ ClientDisconnect

SpecClient == Init /\ [][NextClient]_vars

\* clients that run the shipped code: they join, receive, and send the
\* offers that createPeerConnection starts
NextNegotiate ==
    \/ \E s \in Sessions : Connect(s)
    \/ \E s \in Sessions : JoinRoom(s, "r1", PlainUserData)
    \/ \E s \in Sessions : Disconnect(s)
    \/ \E t \in Sessions : Receive(t)
    \/ \E s \in Sessions : ClientSendOffer(s)

SpecNegotiate == InitWire /\ [][NextNegotiate]_vars

\* the event system alone: callbacks are registered and events emitted
NextEvents ==
    \/ \E event \in EventNames, callback \in Callbacks : On(event, callback)
    \/ \E event \in EventNames : EmitEvent(event)

SpecEvents == Init /\ [][NextEvents]_vars

-----------------------------------------------------------------------------
(* Properties *)

EmittedTo(event) == {i \in 1..Len(emitted) : emitted[i].event = event}

IsJoin == last.event = "join-room" /\ last.arg # ""

\* C1: every Room in the registry has at least one participant (a Room is
\* tracked if and only if it is non-empty), after every operation, REST room
\* creation included.
C1_RoomTrackedIffNonEmpty ==
    \A r \in DOMAIN rooms : ~isEmpty(rooms[r])

\* private keys carried by a message, whatever its event
PrivateKeysIn(m) ==
    CASE m.event = "room-keys" -> {m.data.yourKeyPair.privateKey}
      [] m.event = "existing-participants" ->
            {m.data.list[i].privateKey :
                i \in {j \in 1..Len(m.data.list) : "privateKey" \in DOMAIN m.data.list[j]}}
      [] m.event = "user-joined" ->
            IF "privateKey" \in DOMAIN m.data THEN {m.data.privateKey} ELSE {}
      [] OTHER ->
            {m.data[f] : f \in {g \in DOMAIN m.data : g \in {"privateKey", "keyPair", "yourKeyPair"}}}

\* the private keys of the participant records kept for session s
PrivateKeysOf(s) ==
    {MapGet(rooms[r].participants, s).keyPair.privateKey :
        r \in {q \in DOMAIN rooms : MapHas(rooms[q].participants, s)}}

\* C2: every private key in an emitted message is the receiver's own: it
\* comes in the room-keys message of the session it was generated for, and
\* no other message (existing-participants, user-joined, relays) carries one.
C2_PrivateKeyOnlyToOwner ==
    \A i \in 1..Len(emitted) :
        /\ PrivateKeysIn(emitted[i]) \subseteq PrivateKeysOf(emitted[i].to)
        /\ emitted[i].event # "room-keys" => PrivateKeysIn(emitted[i]) = {}

\* a join into a room that holds another participant: the joiner gets its
\* keys, the other one a user-joined, and the listing names the other one
C2_Witness ==
    /\ IsJoin
    /\ \E i \in EmittedTo("room-keys") : emitted[i].to = last.sid
    /\ \E i \in EmittedTo("user-joined") : emitted[i].to # last.sid
    /\ \E i \in EmittedTo("existing-participants") : Len(emitted[i].data.list) > 0

\* C3: all room-keys messages sent for one tracked Room carry the same
\* encryption key and salt.
C3_SameRoomKeyForAll ==
    \A r \in DOMAIN keysSent :
        \A a, b \in keysSent[r] : a.roomKeys = b.roomKeys

\* two different sessions have been sent the keys of one Room
C3_Witness ==
    \E r \in DOMAIN keysSent :
        \E a, b \in keysSent[r] : a.to # b.to /\ Len(rooms[r].participants) >= 2

\* C4: no room-keys message carries the key of a room whose last connected
\* participant has disconnected: a join after that gets a fresh room key.
C4_FreshKeyAfterLastLeave ==
    \A i \in EmittedTo("room-keys") :
        emitted[i].data.roomKeys.encryptionKey \notin retired

IsRelay == last.event \in SignalEvents \cup SecureEvents

RelayData(event, s, payload) ==
    IF event \in SignalEvents THEN SignalData(event, s, payload)
    ELSE SecureData(event, s, payload)

\* C5: a signaling message naming a connected session B other than the
\* sender is delivered to B exactly once, unchanged and tagged with the
\* sender, and to nobody else.
C5_RelayToTargetOnly ==
    (IsRelay /\ last.arg \in Sessions /\ last.arg # last.sid /\ status[last.arg] = "connected")
        => emitted = <<Msg(last.arg, last.event, RelayData(last.event, last.sid, last.payload))>>

\* the entries of a room other than that of session s, as id and public key
OthersOf(room, s) ==
    LET others == SelectSeq(room.participants, LAMBDA e : e.key # s)
    IN [i \in 1..Len(others) |->
           [id |-> others[i].key, publicKey |-> others[i].keyPair.publicKey]]

IdAndKey(list) ==
    [i \in 1..Len(list) |-> [id |-> list[i].id, publicKey |-> list[i].publicKey]]

\* C6: the existing-participants list of a successful join names exactly the
\* participants the room had before the join, in join order, each with its
\* session id and public key, and not the joiner; it is empty for the first
\* joiner of a fresh room.
C6_ExistingParticipantsAreTheOthers ==
    IsJoin =>
        /\ Cardinality(EmittedTo("existing-participants")) = 1
        /\ \A i \in EmittedTo("existing-participants") :
              /\ emitted[i].to = last.sid
              /\ IdAndKey(emitted[i].data.list) = OthersOf(rooms[last.arg], last.sid)

\* connected sessions, other than s, that have a participant record in room
InRoomWith(room, s) ==
    {t \in MapKeys(room.participants) \ {s} : status[t] = "connected"}

\* C7: on a successful join of S to R, each session already in R gets exactly
\* one user-joined naming S, and nobody else gets one.
C7_UserJoinedToRoomOnly ==
    IsJoin =>
        /\ {emitted[i].to : i \in EmittedTo("user-joined")}
              = InRoomWith(rooms[last.arg], last.sid)
        /\ \A i, j \in EmittedTo("user-joined") : emitted[i].to = emitted[j].to => i = j
        /\ \A i \in EmittedTo("user-joined") : emitted[i].data.userId = last.sid

\* the connected sessions that share a room with s
RoomMatesOf(s) ==
    UNION {InRoomWith(rooms[r], s) :
              r \in {q \in DOMAIN rooms : MapHas(rooms[q].participants, s)}}

\* C8: when a session disconnects, the sessions remaining in its room get
\* exactly one user-left naming it and nobody else gets one; nothing is
\* broadcast for a session that never joined a room.
C8_UserLeftToRoomOnly ==
    [][\A s \in Sessions :
          (status[s] = "connected" /\ status'[s] = "closed") =>
              /\ {emitted'[i].to : i \in {j \in 1..Len(emitted') : emitted'[j].event = "user-left"}}
                    = RoomMatesOf(s)
              /\ \A i, j \in 1..Len(emitted') : emitted'[i].to = emitted'[j].to => i = j
              /\ \A i \in 1..Len(emitted') :
                    emitted'[i].event = "user-left" /\ emitted'[i].data.userId = s]_vars

\* C9: handling disconnect again for a session that is already closed leaves
\* the room registry and the session table as they are and emits nothing.
C9_DisconnectIdempotent ==
    [][\A s \in Sessions :
          (status[s] = "closed" /\ last'.event = "disconnect" /\ last'.sid = s) =>
              /\ rooms' = rooms
              /\ users' = users
              /\ emitted' = <<>>]_vars

\* the handler has run again for a closed session whose room is still there,
\* with a connected participant in it
C9_Witness ==
    /\ last.event = "disconnect"
    /\ last.pre = "closed"
    /\ \E r \in DOMAIN rooms : \E t \in MapKeys(rooms[r].participants) :
          status[t] = "connected" /\ r \in joined[t]

\* C10: a join-room from a session that is already in a room changes neither
\* the participant records nor the session table and sends nothing to other
\* sessions.
C10_DuplicateJoinIsNoOp ==
    [][\A s \in DOMAIN users :
          (last'.event = "join-room" /\ last'.sid = s) =>
              /\ rooms' = rooms
              /\ users' = users
              /\ \A i \in 1..Len(emitted') : emitted'[i].to = s]_vars

\* the tracked rooms that hold a participant record keyed by session s
RoomsOf(s) == {r \in DOMAIN rooms : MapHas(rooms[r].participants, s)}

\* C11: a session has a participant record in at most one room, and one
\* record only in that room.
C11_RecordInAtMostOneRoom ==
    \A s \in Sessions :
        /\ Cardinality(RoomsOf(s)) <= 1
        /\ \A r \in RoomsOf(s) :
              Cardinality({i \in 1..Len(rooms[r].participants) :
                              rooms[r].participants[i].key = s}) = 1

\* C12: a join-room whose roomId does not match the pattern of 3 to 32
\* letters, digits, hyphens or underscores is answered with an error event to
\* the sender alone and changes neither the registry nor the session table.
C12_MalformedRoomIdRejected ==
    [][(last'.event = "join-room" /\ ~validateRoomId(last'.arg)) =>
          /\ rooms' = rooms
          /\ users' = users
          /\ emitted' # <<>>
          /\ \A i \in 1..Len(emitted') :
                emitted'[i].event = "error" /\ emitted'[i].to = last'.sid]_vars

\* C13: a join-room without a roomId sends one error event, to the sender
\* only, and leaves the registry, the participants, the session table and the
\* connection as they were, so that the session can still join.
C13_MissingRoomIdIsError ==
    [][(last'.event = "join-room" /\ last'.arg = "") =>
          /\ Len(emitted') = 1
          /\ emitted'[1].event = "error"
          /\ emitted'[1].to = last'.sid
          /\ rooms' = rooms
          /\ users' = users
          /\ joined' = joined
          /\ status' = status
          /\ status'[last'.sid] = "connected"
          /\ joins' = joins]_vars

\* a session was refused for a missing roomId while another is in a room
C13_Witness ==
    /\ last.event = "join-room"
    /\ last.arg = ""
    /\ last.sid \notin DOMAIN users
    /\ EmittedTo("error") # {}
    /\ DOMAIN rooms # {}

\* the sessions whose participant record in room r is marked creator
CreatorsOf(r) ==
    {rooms[r].participants[i].key :
        i \in {j \in 1..Len(rooms[r].participants) : rooms[r].participants[j].isCreator}}

\* C14: every tracked room with participants has exactly one participant
\* marked room creator, whatever creator flag the clients put in their join
\* payloads.
C14_ExactlyOneCreator ==
    \A r \in DOMAIN rooms :
        ~isEmpty(rooms[r]) => Cardinality(CreatorsOf(r)) = 1

\* C15: while a room id is tracked its Room keeps the encryption key and the
\* salt it was constructed with; a join-room for a tracked id constructs no
\* Room (it draws the participant's key pair only), and a join-room for an
\* untracked id constructs exactly one (one key and one salt are drawn).
C15_OneRoomPerTrackedId ==
    [][/\ \A r \in DOMAIN rooms \cap DOMAIN rooms' :
             /\ rooms'[r].encryptionKey = rooms[r].encryptionKey
             /\ rooms'[r].salt = rooms[r].salt
       /\ (last'.event = "join-room" /\ last'.arg # "") =>
             /\ last'.arg \in DOMAIN rooms'
             /\ entropy' = entropy + (IF last'.arg \in DOMAIN rooms THEN 1 ELSE 3)
             /\ DOMAIN rooms' = DOMAIN rooms \cup {last'.arg}]_vars

\* two sessions are in one room and the later of them has just joined it
C15_Witness ==
    /\ IsJoin
    /\ last.arg \in DOMAIN rooms
    /\ Len(rooms[last.arg].participants) = 2
    /\ rooms[last.arg].participants[2].key = last.sid

\* the session handled last is in a room and has sent the given room event
IsBroadcastOf(event) ==
    /\ last.event = event
    /\ last.sid \in DOMAIN users
    /\ users[last.sid].roomId \in DOMAIN rooms

\* the connected sessions that share the room of the session handled last
RoomOfSender == InRoomWith(rooms[users[last.sid].roomId], last.sid)

CopiesTo(t) == {i \in 1..Len(emitted) : emitted[i].to = t}

\* C16: a media-state-change of a session in a room reaches each other
\* session of that room exactly once and nobody else, and every copy is
\* tagged with the id of the sender and carries the flags it sent.
C16_MediaStateToRoomTagged ==
    IsBroadcastOf("media-state-change") =>
        /\ \A t \in RoomOfSender : Cardinality(CopiesTo(t)) = 1
        /\ \A i \in 1..Len(emitted) :
              /\ emitted[i].to \in RoomOfSender
              /\ emitted[i].event = "media-state-change"
              /\ emitted[i].data.userId = last.sid
              /\ emitted[i].data.video = last.payload.video

\* C17: an encrypted-chat-message of a session in a room reaches each other
\* session of that room exactly once and nobody else, with encryptedMessage,
\* iv and tag as sent and senderId the sender; the timestamp is the sender's
\* when it sent one and the server's only when it sent none.
C17_ChatToRoomUnchanged ==
    IsBroadcastOf("encrypted-chat-message") =>
        /\ \A t \in RoomOfSender : Cardinality(CopiesTo(t)) = 1
        /\ \A i \in 1..Len(emitted) :
              /\ emitted[i].to \in RoomOfSender
              /\ emitted[i].event = "encrypted-chat-message"
              /\ emitted[i].data.senderId = last.sid
              /\ emitted[i].data.encryptedMessage = last.payload.encryptedMessage
              /\ emitted[i].data.iv = last.payload.iv
              /\ emitted[i].data.tag = last.payload.tag
              /\ emitted[i].data.timestamp =
                    (IF "timestamp" \in DOMAIN last.payload
                     THEN last.payload.timestamp ELSE ServerTime)

\* C18: a remote-control-video or remote-control-audio of a session in a room
\* that names a connected session is forwarded, with its enable flag, to that
\* session and to no other.
C18_RemoteControlForwarded ==
    (/\ last.event \in RemoteControlEvents
     /\ last.sid \in DOMAIN users
     /\ status[last.arg] = "connected") =>
        /\ \E i \in 1..Len(emitted) :
              /\ emitted[i].to = last.arg
              /\ emitted[i].event = last.event
              /\ emitted[i].data.enable = last.payload
        /\ \A i \in 1..Len(emitted) : emitted[i].to = last.arg

\* C19: a signaling, media-state or chat event of a connected session that is
\* in no room is answered with an error event to that session and nothing
\* else is sent.
C19_EventBeforeJoinIsError ==
    (/\ last.event \in SignalEvents \cup SecureEvents
                         \cup {"media-state-change", "encrypted-chat-message"}
     /\ last.sid \notin DOMAIN users) =>
        /\ emitted # <<>>
        /\ \A i \in 1..Len(emitted) :
              emitted[i].event = "error" /\ emitted[i].to = last.sid
        /\ status[last.sid] = "connected"

\* C20: a signaling message whose target names no connected session reaches
\* nobody, raises no error and changes neither the registry nor the session
\* table.
C20_RelayToAbsentTargetIsNoOp ==
    [][(/\ last'.event \in SignalEvents \cup SecureEvents
        /\ status[last'.arg] # "connected") =>
          /\ emitted' = <<>>
          /\ rooms' = rooms
          /\ users' = users]_vars

C22_RelayAfterAnnouncement ==
    (received.event \in SignalEvents /\ received.from \in DOMAIN users) => received.known

\* C23: whatever message a client sends, with or without payload, userData
\* or target, the process keeps running and the participant records and
\* session-table entries of the other sessions stay as they were.
C23_NoMessageStopsTheProcess ==
    [][/\ running'
       /\ \A t \in (DOMAIN users) \ {last'.sid} :
             t \in DOMAIN users' /\ users'[t] = users[t]
       /\ \A r \in DOMAIN rooms : \A i \in 1..Len(rooms[r].participants) :
             LET e == rooms[r].participants[i]
             IN e.key # last'.sid =>
                   /\ r \in DOMAIN rooms'
                   /\ MapHas(rooms'[r].participants, e.key)
                   /\ MapGet(rooms'[r].participants, e.key) = e]_vars

\* C24: a join-room during which key generation fails is answered with an
\* error event to the session and leaves no trace: the process runs, the
\* session is connected and has no session-table entry, and no Room without
\* participants stays in the registry.
C24_KeyFailureIsAtomic ==
    (last.event = "join-room" /\ last.payload \in FailurePoints) =>
        /\ running
        /\ EmittedTo("error") # {}
        /\ \A i \in 1..Len(emitted) : emitted[i].to = last.sid
        /\ status[last.sid] = "connected"
        /\ \A r \in DOMAIN rooms : ~isEmpty(rooms[r])

OpenSockets == {w \in WsNames : sockets[w].state = "open"}

\* C25: no two connections that are open at the same time have the same
\* connection id, so that every open connection has its own entry in the
\* connection table.
C25_ConnectionIdsUnique ==
    /\ \A v, w \in OpenSockets : v # w => sockets[v].id # sockets[w].id
    /\ wss = "listening" =>
          \A w \in OpenSockets :
              sockets[w].id \in DOMAIN connections /\ connections[sockets[w].id] = w

\* C26: the close of a connection emits exactly one 'disconnection' for its
\* id and removes the entry of that id, and no second 'disconnection' for
\* the id follows while no new connection has been given it.
C26_DisconnectedExactlyOnce ==
    [][wtLast'.op = "close" =>
          /\ wtLast'.events = <<WtEvent("disconnection", wtLast'.id)>>
          /\ wtLast'.id \notin DOMAIN connections'
          /\ wtLast'.id \notin gone]_vars

\* C30: sendMessage for the id of a connection that has closed delivers
\* nothing and leaves the connection table as it was.
C30_SendAfterCloseDiscarded ==
    [][(wtLast'.op = "sendMessage" /\ wtLast'.id \in closedIds) =>
          /\ wtLast'.events = <<>>
          /\ connections' = connections]_vars

\* C28: GET /api/rooms/:roomId of a tracked room answers with the number of
\* entries of the room's participants map as it is at the request, one per
\* socket id in it, whatever joins and disconnects came before; an untracked
\* room is answered with 404.
C28_CountIsMapSize ==
    last.event = "GET /api/rooms/:roomId" =>
        IF last.arg \in DOMAIN rooms
        THEN /\ Len(emitted) = 1
             /\ emitted[1].event = "200"
             /\ emitted[1].data.participantCount =
                    Cardinality({rooms[last.arg].participants[i].key :
                                    i \in 1..Len(rooms[last.arg].participants)})
        ELSE EmittedTo("404") = {1}

\* a room is looked up that a session has joined twice and another session
\* has joined and left
C28_Witness ==
    /\ last.event = "GET /api/rooms/:roomId"
    /\ last.arg \in DOMAIN rooms
    /\ emitted[1].data.participantCount = 1
    /\ joins >= 3
    /\ \E s \in Sessions : status[s] = "closed"

\* the display name in the join-room payload that session s sent last
DisplayNameOf(s) == users[s].userData.name

\* C29: the display name of a participant in an existing-participants
\* listing, and senderName of an encrypted-chat-message, are the display
\* name that the session sent as userData.name when it joined.
C29_DisplayNameSeen ==
    /\ \A i \in EmittedTo("existing-participants") :
          \A j \in 1..Len(emitted[i].data.list) :
              emitted[i].data.list[j].id \in DOMAIN users =>
                  emitted[i].data.list[j].username =
                      DisplayNameOf(emitted[i].data.list[j].id)
    /\ \A i \in EmittedTo("encrypted-chat-message") :
          emitted[i].data.senderName = DisplayNameOf(emitted[i].data.senderId)

\* the low-latency channel is unavailable to the last connect(): WebTransport
\* is unsupported or its setup failed
WtUnavailable ==
    \/ ~wtClient.call.wt
    \/ wtClient.call.wtOutcome \in {"throws", "rejects"}
    \/ wtClient.call.wtOutcome = "ready" /\ setupWebTransport(wtClient).threw

C31_NothingLeftAfterDisconnect ==
    last.event = "disconnect" =>
        /\ RoomsOf(last.sid) = {}
        /\ last.sid \notin DOMAIN users

RelayedEvents ==
    SignalEvents \cup SecureEvents
        \cup {"media-state-change", "encrypted-chat-message", "user-joined", "user-left"}

\* sessions a and b both have a participant record in one room of registry
SharedRoom(registry, a, b) ==
    \E r \in DOMAIN registry :
        MapHas(registry[r].participants, a) /\ MapHas(registry[r].participants, b)

\* C32: a relayed message reaches only sessions that are in a room with the
\* session it comes from, before the event or after it (user-left is sent
\* when the sender has been removed, user-joined when it has been added).
C32_RoomsIsolated ==
    [][\A i \in 1..Len(emitted') :
          emitted'[i].event \in RelayedEvents =>
              \/ SharedRoom(rooms, last'.sid, emitted'[i].to)
              \/ SharedRoom(rooms', last'.sid, emitted'[i].to)]_vars

\* C33: every entry of the session table names a tracked Room whose
\* participants map holds a record keyed by the session.
C33_UsersEntryNamesRoomOfSession ==
    \A s \in DOMAIN users :
        /\ users[s].roomId \in DOMAIN rooms
        /\ MapHas(rooms[users[s].roomId].participants, s)

\* a session has an entry for the second room it joined, after another
\* session has disconnected and the registry has dropped or kept rooms
C33_Witness ==
    /\ last.event = "disconnect"
    /\ \E s \in DOMAIN users :
          /\ s # last.sid
          /\ Cardinality(RoomsOf(s)) = 2
          /\ Len(rooms[users[s].roomId].participants) = 1

\* the key pair of the participant record keyed by p in room r of registry
KeyPairIn(registry, r, p) == MapGet(registry[r].participants, p).keyPair

HasRecord(registry, r, p) ==
    r \in DOMAIN registry /\ MapHas(registry[r].participants, p)

SettledPair(a, b) ==
    /\ a # b
    /\ status[a] = "connected" /\ status[b] = "connected"
    /\ SharedRoom(rooms, a, b)
    /\ outbox[a] = <<>> /\ outbox[b] = <<>>

\* C35: of two sessions in one room exactly one is the initiator toward the
\* other: once both have taken their messages each has a peer connection for
\* the other, created for the same join, one as initiator (on user-joined)
\* and one not (on existing-participants); and for no join do both create an
\* offer for each other.
C35_ExactlyOneInitiates ==
    \A a, b \in Sessions :
        /\ SettledPair(a, b) =>
              /\ b \in DOMAIN clients[a].roles
              /\ a \in DOMAIN clients[b].roles
              /\ clients[a].roles[b].join = clients[b].roles[a].join
              /\ clients[a].roles[b].initiator # clients[b].roles[a].initiator
        /\ \A o \in clients[a].offered :
              o.to = b => [to |-> a, join |-> o.join] \notin clients[b].offered

\* the session that was in the room has sent its offer for the join of the
\* other, which has taken it with a peer connection created as non-initiator
C35_Witness ==
    \E a, b \in Sessions :
        /\ SettledPair(a, b)
        /\ clients[a].roles[b].initiator
        /\ clients[a].offered # {} /\ clients[a].offers = {}
        /\ received = [to |-> b, event |-> "offer", from |-> a, known |-> TRUE]

\* C36: a call of disconnect() leaves isConnected false and makes the client
\* emit 'disconnected' once: no second 'disconnected' follows the one of the
\* call.
C36_DisconnectedOnce ==
    /\ wtClient.disconnected <= 1
    /\ wtClient.call.op = "disconnect" => ~wtClient.isConnected /\ wtClient.disconnected = 1

\* C37: when connect() has returned true, isConnected is true and a
\* sendMessage that follows at once does not fail with 'Not connected'.
C37_UsableWhenConnectReturns ==
    [][(wtClient.call.op = "connect" /\ wtClient.call.result = "true") =>
          /\ wtClient.isConnected
          /\ wtClient'.call.op = "sendMessage" =>
                wtClient'.call.result # "Not connected"]_vars

\* the names of the callbacks registered for an event, in registration order
RegisteredFor(event) ==
    IF event \in DOMAIN eventListeners
    THEN [i \in 1..Len(eventListeners[event]) |-> eventListeners[event][i].name]
    ELSE <<>>

\* C38: emit calls every callback registered for the event, in registration
\* order, also after a callback that throws, and no exception leaves emit.
C38_ListenersIsolated ==
    emitLast.op = "emit" =>
        /\ emitLast.invoked = RegisteredFor(emitLast.event)
        /\ ~emitLast.propagated

\* an event was emitted whose first callback throws and whose second was
\* called all the same
C38_Witness ==
    /\ emitLast.op = "emit"
    /\ emitLast.event \in DOMAIN eventListeners
    /\ Len(eventListeners[emitLast.event]) = 2
    /\ eventListeners[emitLast.event][1].throws
    /\ emitLast.logged >= 1
    /\ Len(emitLast.invoked) = 2

====
